---- MODULE Spec2Model ----
(***************************************************************************)
(* Video trimmer (src/main.py): the timecode codec, the progress logger,   *)
(* the background TrimWorker thread and the MainWindow slots, with the     *)
(* queued delivery of the worker's signals to the UI thread.               *)
(*                                                                         *)
(* Texts are sequences of one-character strings.  Times are counted in     *)
(* milliseconds: every time the program handles comes from a timecode with *)
(* at most three fractional digits or from a media duration, and on such   *)
(* values the float comparisons of the source order exactly as the         *)
(* millisecond counts do.  The percent of QtLogger.callback is computed in *)
(* IEEE-754 binary64, as Python computes it.                               *)
(***************************************************************************)
EXTENDS Integers, Sequences, FiniteSets, TLC

(***************************************************************************)
(* Bounds of the model.                                                    *)
(***************************************************************************)
MaxJobs == 2
MaxCallbacks == 2

(***************************************************************************)
(* Small helpers.                                                          *)
(***************************************************************************)
Min(S) == CHOOSE x \in S : \A y \in S : x <= y

RECURSIVE SumOver(_, _)
SumOver(f, S) ==
  IF S = {} THEN 0
  ELSE LET k == CHOOSE x \in S : TRUE IN f[k] + SumOver(f, S \ {k})

(***************************************************************************)
(* Characters and decimal conversion: int(), str.strip(), format padding.  *)
(***************************************************************************)
DIGITS == <<"0", "1", "2", "3", "4", "5", "6", "7", "8", "9">>
Digit == {DIGITS[i] : i \in 1..10}
Whitespace == {" ", "\t", "\n"}

DigitVal(c) == (CHOOSE i \in 1..10 : DIGITS[i] = c) - 1

AllDigits(s) == \A i \in 1..Len(s) : s[i] \in Digit

\* int(text) for a text of decimal digits.
RECURSIVE IntOf(_)
IntOf(s) ==
  IF s = <<>> THEN 0
  ELSE 10 * IntOf(SubSeq(s, 1, Len(s) - 1)) + DigitVal(s[Len(s)])

\* str(n) for n >= 0.
RECURSIVE StrOf(_)
StrOf(n) ==
  IF n < 10 THEN <<DIGITS[n + 1]>>
  ELSE Append(StrOf(n \div 10), DIGITS[(n % 10) + 1])

\* Zero padding on the left to a minimum width (the 0w of a format spec).
RECURSIVE ZeroPad(_, _)
ZeroPad(s, w) == IF Len(s) >= w THEN s ELSE ZeroPad(<<"0">> \o s, w)

RECURSIVE LStrip(_)
LStrip(s) ==
  IF s # <<>> /\ Head(s) \in Whitespace THEN LStrip(Tail(s)) ELSE s

RECURSIVE RStrip(_)
RStrip(s) ==
  IF s # <<>> /\ s[Len(s)] \in Whitespace
  THEN RStrip(SubSeq(s, 1, Len(s) - 1)) ELSE s

\* str.strip()
Strip(s) == RStrip(LStrip(s))

(***************************************************************************)
(* Timecode codec.                                                         *)
(***************************************************************************)
NoMatch == [matched |-> FALSE, h |-> <<>>, mnt |-> <<>>, sec |-> <<>>]

\* A variant of the pattern that takes minutes of one digit or more.
TIME_PATTERN_LooseMinutes(s) ==
  LET colons == {i \in 1..Len(s) : s[i] = ":"} IN
  IF Cardinality(colons) # 2 THEN NoMatch
  ELSE
    LET p == Min(colons)
        q == Min(colons \ {p})
        h == SubSeq(s, 1, p - 1)
        mnt == SubSeq(s, p + 1, q - 1)
        sec == SubSeq(s, q + 1, Len(s))
    IN IF /\ Len(h) >= 1 /\ AllDigits(h)
          /\ Len(mnt) >= 1 /\ AllDigits(mnt)
          /\ Len(sec) \in {2, 4, 5, 6}
          /\ AllDigits(SubSeq(sec, 1, 2))
          /\ Len(sec) > 2 => (sec[3] = "." /\ AllDigits(SubSeq(sec, 4, Len(sec))))
       THEN [matched |-> TRUE, h |-> h, mnt |-> mnt, sec |-> sec]
       ELSE NoMatch

\* TIME_PATTERN.fullmatch(s): ^(\d+):(\d{2}):(\d{2}(?:\.\d{1,3})?)$
\* The hours group ends at the first colon, as digits hold no colon.
TIME_PATTERN(s) ==
  LET colons == {i \in 1..Len(s) : s[i] = ":"} IN
  IF colons = {} THEN NoMatch
  ELSE
    LET p == Min(colons)
        h == SubSeq(s, 1, p - 1)
        rest == SubSeq(s, p + 1, Len(s))
        n == Len(rest)
    IN
      IF /\ Len(h) >= 1
         /\ AllDigits(h)
         /\ n \in {5, 7, 8, 9}
         /\ AllDigits(SubSeq(rest, 1, 2))
         /\ rest[3] = ":"
         /\ AllDigits(SubSeq(rest, 4, 5))
         /\ n > 5 => (rest[6] = "." /\ AllDigits(SubSeq(rest, 7, n)))
      THEN [matched |-> TRUE, h |-> h, mnt |-> SubSeq(rest, 1, 2),
            sec |-> SubSeq(rest, 4, n)]
      ELSE NoMatch

\* float(sec) for the seconds group SS or SS.f, SS.ff, SS.fff, in milliseconds.
FloatOfSec(sec) ==
  LET frac == SubSeq(sec, 4, Len(sec)) IN
  IntOf(SubSeq(sec, 1, 2)) * 1000
    + (IF frac = <<>> THEN 0
       ELSE IntOf(frac) * (IF Len(frac) = 1 THEN 100
                           ELSE IF Len(frac) = 2 THEN 10 ELSE 1))

\* to_seconds(timecode): raised is the ValueError, value the seconds (in ms).
to_seconds(timecode) ==
  LET m == TIME_PATTERN(Strip(timecode)) IN
  IF ~m.matched THEN [raised |-> TRUE, value |-> 0]
  ELSE [raised |-> FALSE,
        value |-> IntOf(m.h) * 3600000 + IntOf(m.mnt) * 60000
                    + FloatOfSec(m.sec)]

\* A variant of the formatter that always takes the whole-seconds branch.
seconds_to_timecode_Whole(seconds) ==
  ZeroPad(StrOf(seconds \div 3600000), 2) \o <<":">>
    \o ZeroPad(StrOf((seconds % 3600000) \div 60000), 2) \o <<":">>
    \o ZeroPad(StrOf((seconds % 60000) \div 1000), 2)

\* seconds_to_timecode(seconds), seconds given in milliseconds.
seconds_to_timecode(seconds) ==
  LET h == seconds \div 3600000
      m == (seconds % 3600000) \div 60000
      s == seconds % 60000
      hm == ZeroPad(StrOf(h), 2) \o <<":">> \o ZeroPad(StrOf(m), 2) \o <<":">>
  IN
    IF s % 1000 # 0
    THEN hm \o ZeroPad(StrOf(s \div 1000), 2) \o <<".">>
            \o ZeroPad(StrOf(s % 1000), 3)
    ELSE hm \o ZeroPad(StrOf(s \div 1000), 2)

(***************************************************************************)
(* IEEE-754 binary64 arithmetic of the percent computation, for integers   *)
(* 1 <= c <= t < 2^11.  A double is held exactly, as a 61-bit numerator of *)
(* three limbs (base 2^20, hi the most significant) over 2^scale; every    *)
(* operation rounds to 53 significant bits, to nearest, ties to even, as   *)
(* the hardware does.  All intermediate integers stay below 2^31.          *)
(***************************************************************************)
Limb == 2^20

\* The least j with c * 2^j >= t.
RECURSIVE NormShift(_, _)
NormShift(c, t) == IF c >= t THEN 0 ELSE 1 + NormShift(2 * c, t)

\* Carry propagation after an addition to the low limb.
Carry(x) ==
  LET lo == x.lo % Limb
      m == x.mid + (x.lo \div Limb)
  IN [hi |-> x.hi + (m \div Limb), mid |-> m % Limb, lo |-> lo,
      scale |-> x.scale]

\* Python's c / t: the correctly rounded quotient.  With num = c * 2^j in
\* [t, 2t) the 53-bit significand is floor(num * 2^52 / t), found by long
\* division in limbs of 12, 20 and 20 bits, and rounded by the remainder.
FloatDiv(c, t) ==
  LET j == NormShift(c, t)
      num == c * 2^j
      q2 == (num * 2^12) \div t
      r2 == (num * 2^12) % t
      q1 == (r2 * Limb) \div t
      r1 == (r2 * Limb) % t
      q0 == (r1 * Limb) \div t
      r0 == (r1 * Limb) % t
      up == 2 * r0 > t \/ (2 * r0 = t /\ q0 % 2 = 1)
  IN Carry([hi |-> q2, mid |-> q1, lo |-> q0 + (IF up THEN 1 ELSE 0),
            scale |-> 52 + j])

\* The number of bits of n >= 1.
RECURSIVE BitLen(_)
BitLen(n) == IF n <= 1 THEN 1 ELSE 1 + BitLen(n \div 2)

\* x * n for a double x and a small integer n (exact as a double): the exact
\* product, then rounded to 53 significant bits.
FloatMul(x, n) ==
  LET p == Carry([hi |-> x.hi * n, mid |-> x.mid * n, lo |-> x.lo * n,
                  scale |-> x.scale])
      extra == (BitLen(p.hi) + 40) - 53
      unit == 2^extra
      lost == p.lo % unit
      up == 2 * lost > unit \/ (2 * lost = unit /\ (p.lo \div unit) % 2 = 1)
  IN IF extra <= 0 THEN p
     ELSE Carry([p EXCEPT !.lo = p.lo - lost + (IF up THEN unit ELSE 0)])

\* int(x) for a double x >= 0 with scale >= 40: truncation.
FloatTrunc(x) == x.hi \div 2^(x.scale - 40)

\* int(completed / grand_total * 100), 0 <= completed <= grand_total.
Percent(completed, grand_total) ==
  IF completed = 0 THEN 0
  ELSE FloatTrunc(FloatMul(FloatDiv(completed, grand_total), 100))

(***************************************************************************)
(* Inputs of the model: the texts a user types, the files a dialog can     *)
(* return with their media durations (ms), the messages the collaborator   *)
(* raises, and the changes it reports to the logger.                       *)
(***************************************************************************)
Txt_000000 == <<"0", "0", ":", "0", "0", ":", "0", "0">>
Txt_000010 == <<"0", "0", ":", "0", "0", ":", "1", "0">>
Txt_000500 == <<"0", "0", ":", "0", "5", ":", "0", "0">>
Txt_1_2_3 == <<"1", ":", "2", ":", "3">>
Txt_blank == <<" ">>
Txt_out == <<"o", "u", "t">>
Txt_out_mp4 == <<"o", "u", "t", ".", "m", "p", "4">>
Txt_ext == <<".", "m", "p", "4">>

None == "None"
Files == {"a.mp4", "b.mov"}
DurationOf == [f \in Files |-> IF f = "a.mp4" THEN 120000 ELSE 5500]

OpenError == "could not open the file"
SubclipError == "start_time beyond the clip"
EncodeError == "ffmpeg failed"

Phases == {"chunk", "frame_index"}
Message == [kind |-> "message", bar |-> "", index |-> 0, total |-> 0]
Snapshot(b, i, t) == [kind |-> "bar", bar |-> b, index |-> i, total |-> t]

(***************************************************************************)
(* State.  The widgets and attributes of MainWindow, the TrimWorker        *)
(* objects with the position of their threads in run(), and the event      *)
(* queue of the UI thread, which holds the worker's signals (emitted in    *)
(* the worker thread, delivered to slots of the UI thread) in the order of *)
(* their emission.                                                         *)
(*                                                                         *)
(* History, read by the properties only: shown is the message box the      *)
(* latest step showed (message boxes are modal: a slot returns once its    *)
(* box is dismissed); of a job, emitted are the percents emitted on its    *)
(* progress signal, observed those delivered to the progress bar,          *)
(* nfinished the emissions of its finished signal, handled says that       *)
(* on_finished has run for it, and requested is the range it was created   *)
(* with.                                                                   *)
(***************************************************************************)
VARIABLES
  video_path,   \* self.video_path: None or a file name
  file_label,   \* text of self.file_label
  start_edit,   \* text of self.start_edit
  end_edit,     \* text of self.end_edit
  out_edit,     \* text of self.out_edit
  trim_btn,     \* self.trim_btn is enabled
  progress,     \* value of self.progress
  worker,       \* self.worker: 0 (None) or the id of a TrimWorker
  jobs,         \* the TrimWorker objects, by id
  njobs,        \* TrimWorker objects created so far
  queue,        \* event queue of the UI thread
  shown         \* the message box shown by the latest step

vars == <<video_path, file_label, start_edit, end_edit, out_edit, trim_btn,
          progress, worker, jobs, njobs, queue, shown>>

JobIds == 1..MaxJobs

NoDialog == [kind |-> "none", text |-> "", detail |-> ""]

NoJob ==
  [pc |-> "none", src |-> None, dst |-> <<>>, start_time |-> 0,
   end_time |-> 0, clip |-> "none", duration |-> 0, sub |-> <<>>,
   bars |-> <<>>, ncallbacks |-> 0, err |-> "",
   emitted |-> <<>>, observed |-> <<>>, nfinished |-> 0, handled |-> FALSE,
   requested |-> <<>>]

\* TrimWorker.__init__ followed by QThread.start(): the thread is about to
\* execute the first statement of run().
TrimWorker(src, dst, start, end) ==
  [NoJob EXCEPT !.pc = "open", !.src = src, !.dst = dst,
                !.start_time = start, !.end_time = end,
                !.requested = <<start, end>>]

\* The thread of a job has been started and has not returned from run().
Alive(j) == jobs[j].pc \in {"open", "clamp", "subclip", "write", "emit_ok",
                            "except", "exit"}

Init ==
  /\ video_path = None
  /\ file_label = "<i>No file chosen</i>"
  /\ start_edit = Txt_000000
  /\ end_edit = Txt_000000
  /\ out_edit = <<>>
  /\ trim_btn = TRUE
  /\ progress = 0
  /\ worker = 0
  /\ jobs = [j \in JobIds |-> NoJob]
  /\ njobs = 0
  /\ queue = <<>>
  /\ shown = NoDialog

(***************************************************************************)
(* The UI thread: the slots of MainWindow.                                  *)
(***************************************************************************)
\* MainWindow.error
error(message) ==
  shown' = [kind |-> "critical", text |-> message, detail |-> ""]

\* MainWindow.browse_file: fname is the dialog's answer ("" when cancelled),
\* readable whether VideoFileClip(fname) opens.
browse_file(fname, readable) ==
  /\ IF fname # ""
     THEN /\ video_path' = fname
          /\ file_label' = fname
          /\ end_edit' = IF readable
                         THEN seconds_to_timecode(DurationOf[fname])
                         ELSE end_edit
     ELSE UNCHANGED <<video_path, file_label, end_edit>>
  /\ shown' = NoDialog
  /\ UNCHANGED <<start_edit, out_edit, trim_btn, progress, worker, jobs,
                 njobs, queue>>

UpperCase == <<"A", "B", "C", "D", "E", "F", "G", "H", "I", "J", "K", "L", "M",
               "N", "O", "P", "Q", "R", "S", "T", "U", "V", "W", "X", "Y", "Z">>
LowerCase == <<"a", "b", "c", "d", "e", "f", "g", "h", "i", "j", "k", "l", "m",
               "n", "o", "p", "q", "r", "s", "t", "u", "v", "w", "x", "y", "z">>

\* str.lower()
Lower(s) ==
  [i \in 1..Len(s) |->
     IF \E k \in 1..26 : UpperCase[k] = s[i]
     THEN LowerCase[CHOOSE k \in 1..26 : UpperCase[k] = s[i]]
     ELSE s[i]]

\* str.endswith(suffix)
EndsWith(s, suffix) ==
  /\ Len(s) >= Len(suffix)
  /\ SubSeq(s, Len(s) - Len(suffix) + 1, Len(s)) = suffix

\* MainWindow.browse_output: fname is the dialog's answer (empty when
\* cancelled).
browse_output(fname) ==
  /\ IF fname # <<>>
     THEN out_edit' = IF EndsWith(Lower(fname), Txt_ext)
                      THEN fname ELSE fname \o Txt_ext
     ELSE UNCHANGED out_edit
  /\ shown' = NoDialog
  /\ UNCHANGED <<video_path, file_label, start_edit, end_edit, trim_btn,
                 progress, worker, jobs, njobs, queue>>

\* Path(text): the empty text is the path of the current directory.
Path(text) == IF text = <<>> THEN <<".">> ELSE text

\* bool(path): pathlib paths define neither __bool__ nor __len__, so every
\* Path object is true.
PathBool(path) == TRUE

\* The TrimWorker object self.worker referred to is released when the
\* attribute is rebound, once its thread has returned.
Release(js, j) ==
  IF j # 0 /\ js[j].pc = "done" THEN [js EXCEPT ![j] = NoJob] ELSE js

\* A variant of the last check that lets an empty range through.
RangeRejected_Strict(start, end) == end < start

\* The guard of start_trim's last check: the range is rejected.
RangeRejected(start, end) == end <= start

\* MainWindow.start_trim, the slot of the Trim button's clicked signal; a
\* disabled button emits no click.  exists is the answer of
\* self.video_path.exists().
start_trim(exists) ==
  /\ trim_btn
  /\ LET output == Path(Strip(out_edit))
         start_sec == to_seconds(start_edit)
         end_sec == to_seconds(end_edit)
         quiet == UNCHANGED <<trim_btn, progress, worker, jobs, njobs>>
     IN
       IF video_path = None \/ ~exists
       THEN error("Please select a source video first.") /\ quiet
       ELSE IF ~PathBool(output)
       THEN error("Please specify an output file path.") /\ quiet
       ELSE IF start_sec.raised \/ end_sec.raised
       THEN error("Timecode must be HH:MM:SS or HH:MM:SS.mmm") /\ quiet
       ELSE IF RangeRejected(start_sec.value, end_sec.value)
       THEN error("End time must be greater than start time.") /\ quiet
       ELSE /\ njobs < MaxJobs
            /\ trim_btn' = FALSE
            /\ progress' = 0
            /\ njobs' = njobs + 1
            /\ worker' = njobs + 1
            /\ jobs' = [Release(jobs, worker) EXCEPT
                          ![njobs + 1] = TrimWorker(video_path, output,
                                                    start_sec.value,
                                                    end_sec.value)]
            /\ shown' = NoDialog
  /\ UNCHANGED <<video_path, file_label, start_edit, end_edit, out_edit,
                 queue>>

\* A variant of on_finished that leaves the Trim button disabled.
on_finished_KeepsDisabled(j, ok, msg) ==
  /\ trim_btn' = trim_btn
  /\ progress' = IF ok THEN 100 ELSE 0
  /\ shown' = [kind |-> IF ok THEN "information" ELSE "critical",
               text |-> IF ok THEN "Trimming complete!" ELSE "Failed: ",
               detail |-> IF ok THEN "" ELSE msg]
  /\ jobs' = [jobs EXCEPT ![j].handled = TRUE]

\* A variant of on_finished that leaves the progress bar as it is when the
\* job has failed.
on_finished_KeepsProgress(j, ok, msg) ==
  /\ trim_btn' = TRUE
  /\ progress' = IF ok THEN 100 ELSE progress
  /\ shown' = [kind |-> IF ok THEN "information" ELSE "critical",
               text |-> IF ok THEN "Trimming complete!" ELSE "Failed: ",
               detail |-> IF ok THEN "" ELSE msg]
  /\ jobs' = [jobs EXCEPT ![j].handled = TRUE]

\* MainWindow.on_finished(ok, msg), for the finished signal of job j.
on_finished(j, ok, msg) ==
  /\ trim_btn' = TRUE
  /\ IF ok
     THEN /\ progress' = 100
          /\ shown' = [kind |-> "information", text |-> "Trimming complete!",
                       detail |-> ""]
     ELSE /\ progress' = 0
          /\ shown' = [kind |-> "critical", text |-> "Failed: ",
                       detail |-> msg]
  /\ jobs' = [jobs EXCEPT ![j].handled = TRUE]

\* A variant of the delivery order: the event queued last is taken first.
NextEvent_Newest == Len(queue)

\* The position in the queue of the event the UI thread takes next: queued
\* signals are delivered in the order of their emission.
NextEvent == 1

\* The UI event loop delivers one queued signal to its slot:
\* worker.progress -> self.progress.setValue, worker.finished -> on_finished.
Deliver ==
  /\ queue # <<>>
  /\ LET k == NextEvent
         e == queue[k]
     IN /\ queue' = SubSeq(queue, 1, k - 1) \o SubSeq(queue, k + 1, Len(queue))
        /\ IF e.sig = "progress"
           THEN /\ progress' = e.percent
                /\ jobs' = [jobs EXCEPT
                              ![e.job].observed = Append(@, e.percent)]
                /\ shown' = NoDialog
                /\ UNCHANGED trim_btn
           ELSE on_finished(e.job, e.ok, e.msg)
  /\ UNCHANGED <<video_path, file_label, start_edit, end_edit, out_edit,
                 worker, njobs>>

(***************************************************************************)
(* The progress logger of a job.                                           *)
(***************************************************************************)
\* ProgressBarLogger's part of the callback: the bars after the changes
\* have been recorded.  A message changes no bar.
UpdateBars(bars, ch) ==
  IF ch.kind # "bar" THEN bars
  ELSE [b \in DOMAIN bars \cup {ch.bar} |->
          IF b = ch.bar THEN [index |-> ch.index, total |-> ch.total]
          ELSE bars[b]]

\* b["total"] or b["index"]
TotalOrIndex(b) == IF b.total # 0 THEN b.total ELSE b.index

\* min(b["index"], b["total"] or b["index"])
Done(b) == IF b.index <= TotalOrIndex(b) THEN b.index ELSE TotalOrIndex(b)

\* The sum of completed work over the bars.
Completed(bars) == SumOver([b \in DOMAIN bars |-> Done(bars[b])], DOMAIN bars)

\* The sum of the totals over the bars, or 1.
GrandTotal(bars) ==
  LET total == SumOver([b \in DOMAIN bars |-> TotalOrIndex(bars[b])],
                       DOMAIN bars)
  IN IF total # 0 THEN total ELSE 1

\* A variant of the callback without the early return: with no bar the sums
\* are 0 and 1, and 0 is emitted.
Emission_NoEarlyReturn(bars, last) ==
  <<Percent(Completed(bars), GrandTotal(bars))>>

\* The percents QtLogger.callback emits having recorded its changes, last
\* the percent emitted before: none while there is no bar, else the percent
\* computed.
Emission(bars, last) ==
  IF DOMAIN bars = {} THEN <<>>
  ELSE <<Percent(Completed(bars), GrandTotal(bars))>>

ProgressEvent(j, p) ==
  [job |-> j, sig |-> "progress", percent |-> p, ok |-> FALSE, msg |-> ""]

FinishedEvent(j, ok, msg) ==
  [job |-> j, sig |-> "finished", percent |-> 0, ok |-> ok, msg |-> msg]

\* A variant of the callback whose signal is connected directly: the slot
\* runs in the worker's thread and sets the progress bar at once.
callback_Direct(j, ch) ==
  /\ jobs[j].pc = "write"
  /\ jobs[j].ncallbacks < MaxCallbacks
  /\ LET bars == UpdateBars(jobs[j].bars, ch)
         out == Emission(bars, jobs[j].emitted)
     IN /\ jobs' = [jobs EXCEPT ![j].bars = bars,
                                ![j].ncallbacks = @ + 1,
                                ![j].emitted = @ \o out,
                                ![j].observed = @ \o out]
        /\ progress' = IF out = <<>> THEN progress ELSE out[Len(out)]
  /\ shown' = NoDialog
  /\ UNCHANGED <<video_path, file_label, start_edit, end_edit, out_edit,
                 trim_btn, worker, njobs, queue>>

\* QtLogger.callback, called by the encoder inside
\* write_videofile in the thread of job j.
callback(j, ch) ==
  /\ jobs[j].pc = "write"
  /\ jobs[j].ncallbacks < MaxCallbacks
  /\ LET bars == UpdateBars(jobs[j].bars, ch)
         out == Emission(bars, jobs[j].emitted)
     IN /\ jobs' = [jobs EXCEPT ![j].bars = bars,
                                ![j].ncallbacks = @ + 1,
                                ![j].emitted = @ \o out]
        /\ queue' = queue \o [i \in 1..Len(out) |-> ProgressEvent(j, out[i])]
  /\ shown' = NoDialog
  /\ UNCHANGED <<video_path, file_label, start_edit, end_edit, out_edit,
                 trim_btn, progress, worker, njobs>>

(***************************************************************************)
(* TrimWorker.run, statement by statement, in the thread of job j.         *)
(***************************************************************************)
ui == <<video_path, file_label, start_edit, end_edit, out_edit, trim_btn,
        progress, worker, njobs>>

\* clip = VideoFileClip(str(self.src)): opens the source or raises.
OpenSource(j) ==
  /\ jobs[j].pc = "open"
  /\ \/ jobs' = [jobs EXCEPT ![j].clip = "open",
                             ![j].duration = DurationOf[jobs[j].src],
                             ![j].pc = "clamp"]
     \/ jobs' = [jobs EXCEPT ![j].err = OpenError, ![j].pc = "except"]
  /\ shown' = NoDialog
  /\ UNCHANGED <<ui, queue>>

\* A variant of the clamp that leaves the end time alone.
ClampEnd_Unclamped(end, d) == end

\* The end time a job of source duration d encodes to.
ClampEnd(end, d) == IF end > d THEN d ELSE end

\* if self.end_time > clip.duration: self.end_time = clip.duration
Clamp(j) ==
  /\ jobs[j].pc = "clamp"
  /\ jobs' = [jobs EXCEPT
                ![j].end_time = ClampEnd(jobs[j].end_time, jobs[j].duration),
                ![j].pc = "subclip"]
  /\ shown' = NoDialog
  /\ UNCHANGED <<ui, queue>>

\* A variant of the sub-clip step that pulls a start beyond the end back to
\* the end.
Subclip_ClampsStart(j) ==
  /\ jobs[j].pc = "subclip"
  /\ \/ jobs' = [jobs EXCEPT
                   ![j].sub = <<Min({jobs[j].start_time, jobs[j].end_time}),
                                jobs[j].end_time>>,
                   ![j].bars = <<>>,
                   ![j].pc = "write"]
     \/ jobs' = [jobs EXCEPT ![j].err = SubclipError, ![j].pc = "except"]
  /\ shown' = NoDialog
  /\ UNCHANGED <<ui, queue>>

\* sub = clip.subclipped(self.start_time, self.end_time), which may raise,
\* and logger = QtLogger(self.progress), whose bars start empty.
Subclip(j) ==
  /\ jobs[j].pc = "subclip"
  /\ \/ jobs' = [jobs EXCEPT
                   ![j].sub = <<jobs[j].start_time, jobs[j].end_time>>,
                   ![j].bars = <<>>,
                   ![j].pc = "write"]
     \/ jobs' = [jobs EXCEPT ![j].err = SubclipError, ![j].pc = "except"]
  /\ shown' = NoDialog
  /\ UNCHANGED <<ui, queue>>

\* sub.write_videofile(...) returns, or raises.
WriteEnds(j) ==
  /\ jobs[j].pc = "write"
  /\ \/ jobs' = [jobs EXCEPT ![j].pc = "emit_ok"]
     \/ jobs' = [jobs EXCEPT ![j].err = EncodeError, ![j].pc = "except"]
  /\ shown' = NoDialog
  /\ UNCHANGED <<ui, queue>>

\* A variant of the success path that ends run() without a signal.
EmitDone_Silent(j) ==
  /\ jobs[j].pc = "emit_ok"
  /\ jobs' = [jobs EXCEPT ![j].pc = "exit"]
  /\ shown' = NoDialog
  /\ UNCHANGED <<ui, queue>>

\* self.finished.emit(True, "Done!")
EmitDone(j) ==
  /\ jobs[j].pc = "emit_ok"
  /\ queue' = Append(queue, FinishedEvent(j, TRUE, "Done!"))
  /\ jobs' = [jobs EXCEPT ![j].nfinished = @ + 1, ![j].pc = "exit"]
  /\ shown' = NoDialog
  /\ UNCHANGED ui

\* A variant of the handler that swallows the exception without a signal.
EmitFailed_Silent(j) ==
  /\ jobs[j].pc = "except"
  /\ jobs' = [jobs EXCEPT ![j].pc = "exit"]
  /\ shown' = NoDialog
  /\ UNCHANGED <<ui, queue>>

\* except Exception as e: self.finished.emit(False, str(e))
EmitFailed(j) ==
  /\ jobs[j].pc = "except"
  /\ queue' = Append(queue, FinishedEvent(j, FALSE, jobs[j].err))
  /\ jobs' = [jobs EXCEPT ![j].nfinished = @ + 1, ![j].pc = "exit"]
  /\ shown' = NoDialog
  /\ UNCHANGED ui

\* run() returns and the thread ends; a TrimWorker that self.worker no
\* longer refers to is released.
Return(j) ==
  /\ jobs[j].pc = "exit"
  /\ jobs' = IF worker = j THEN [jobs EXCEPT ![j].pc = "done"]
             ELSE [jobs EXCEPT ![j] = NoJob]
  /\ shown' = NoDialog
  /\ UNCHANGED <<ui, queue>>

\* One step of the thread of job j outside the logger.
Run(j) ==
  \/ OpenSource(j)
  \/ Clamp(j)
  \/ Subclip(j)
  \/ WriteEnds(j)
  \/ EmitDone(j)
  \/ EmitFailed(j)
  \/ Return(j)

(***************************************************************************)
(* Spec: the whole program, with an encoder that reports progress.  The    *)
(* user picks the files in the dialogs between jobs, while the Trim button *)
(* is enabled: what the form holds during a job is read by nothing until   *)
(* the next click, as a TrimWorker copies its inputs when it is created.   *)
(***************************************************************************)
Changes == {Snapshot("chunk", 1, 2)}

FillForm ==
  /\ trim_btn
  /\ \/ \E f \in {"", "a.mp4"}, readable \in BOOLEAN : browse_file(f, readable)
     \/ \E f \in {<<>>, Txt_out} : browse_output(f)

Next ==
  \/ FillForm
  \/ \E exists \in BOOLEAN : start_trim(exists)
  \/ Deliver
  \/ \E j \in JobIds : Run(j)
  \/ \E j \in JobIds, ch \in Changes : callback(j, ch)

Spec == Init /\ [][Next]_vars

(***************************************************************************)
(* SpecLive: Spec with its scheduling.  The thread of every job keeps      *)
(* running while it has a statement to execute (the calls into the         *)
(* collaborators return or raise), and the event loop of the UI thread     *)
(* keeps delivering queued signals.                                        *)
(***************************************************************************)
Fairness ==
  /\ WF_vars(Deliver)
  /\ \A j \in JobIds : WF_vars(Run(j))

SpecLive == Spec /\ Fairness

(***************************************************************************)
(* SpecForm: the program from a form the user has filled in, with any of   *)
(* the texts below in its fields and a source chosen or not; the user then *)
(* only clicks Trim, and the encoder reports nothing.                      *)
(***************************************************************************)
StartTexts == {Txt_000000, Txt_000010, Txt_1_2_3}
EndTexts == {Txt_000000, Txt_000500, Txt_1_2_3, seconds_to_timecode(DurationOf["a.mp4"])}
OutTexts == {<<>>, Txt_blank, Txt_out, Txt_out_mp4}

InitForm ==
  /\ video_path \in {None} \cup Files
  /\ file_label = IF video_path = None THEN "<i>No file chosen</i>"
                  ELSE video_path
  /\ start_edit \in StartTexts
  /\ end_edit \in EndTexts
  /\ out_edit \in OutTexts
  /\ trim_btn = TRUE
  /\ progress = 0
  /\ worker = 0
  /\ jobs = [j \in JobIds |-> NoJob]
  /\ njobs = 0
  /\ queue = <<>>
  /\ shown = NoDialog

NextForm ==
  \/ \E exists \in BOOLEAN : start_trim(exists)
  \/ Deliver
  \/ \E j \in JobIds : Run(j)

SpecForm == InitForm /\ [][NextForm]_vars

(***************************************************************************)
(* SpecLogger: the logger of one job during its encode.  The state at the  *)
(* start is the one Spec reaches when the user picks a.mp4 and the output  *)
(* out, clicks Trim, and the job has opened the source and called          *)
(* write_videofile; from there the encoder reports any of the changes      *)
(* below and the UI thread delivers the progress signals.                  *)
(***************************************************************************)
LoggerChanges ==
  {Message} \cup {Snapshot(b, i, t) : b \in Phases, i \in {0, 29, 50, 100},
                                       t \in {0, 50, 100}}

InitLogger ==
  /\ video_path = "a.mp4"
  /\ file_label = "a.mp4"
  /\ start_edit = Txt_000000
  /\ end_edit = seconds_to_timecode(DurationOf["a.mp4"])
  /\ out_edit = Txt_out_mp4
  /\ trim_btn = FALSE
  /\ progress = 0
  /\ worker = 1
  /\ jobs = [j \in JobIds |->
               IF j = 1
               THEN [TrimWorker("a.mp4", Txt_out_mp4, 0, DurationOf["a.mp4"])
                       EXCEPT !.pc = "write", !.clip = "open",
                              !.duration = DurationOf["a.mp4"],
                              !.sub = <<0, DurationOf["a.mp4"]>>]
               ELSE NoJob]
  /\ njobs = 1
  /\ queue = <<>>
  /\ shown = NoDialog

NextLogger ==
  \/ \E ch \in LoggerChanges : callback(1, ch)
  \/ Deliver

SpecLogger == InitLogger /\ [][NextLogger]_vars

(***************************************************************************)
(* SpecCodec: the timecode codec at work.  The user has typed one of the   *)
(* texts below into the start field; browse_file writes the formatted      *)
(* duration of the source into the end field and start_trim parses both    *)
(* fields.  The texts are built from pieces, right and wrong, of the       *)
(* grammar: padding, hours, colon, minutes, colon, seconds, fraction,      *)
(* padding.                                                                *)
(***************************************************************************)
CodecTexts ==
  {pre \o h \o c1 \o mm \o c2 \o ss \o fr \o post :
     pre \in {<<>>, <<" ">>},
     h \in {<<>>, <<"0">>, <<"1">>, <<"1", "2">>, <<"-", "1">>},
     c1 \in {<<>>, <<":">>},
     mm \in {<<>>, <<"2">>, <<"0", "0">>, <<"6", "0">>, <<"0", "0", "0">>},
     c2 \in {<<>>, <<":">>},
     ss \in {<<>>, <<"3">>, <<"0", "0">>, <<"0", "5">>, <<"5", "9">>},
     fr \in {<<>>, <<".">>, <<".", "5">>, <<".", "2", "5">>,
             <<".", "1", "2", "5">>, <<".", "1", "2", "3", "4">>},
     post \in {<<>>, <<" ">>}}

InitCodec ==
  /\ video_path = "a.mp4"
  /\ file_label = "a.mp4"
  /\ start_edit \in CodecTexts
  /\ end_edit = Txt_000500
  /\ out_edit = Txt_out_mp4
  /\ trim_btn = TRUE
  /\ progress = 0
  /\ worker = 0
  /\ jobs = [j \in JobIds |-> NoJob]
  /\ njobs = 0
  /\ queue = <<>>
  /\ shown = NoDialog

NextCodec ==
  \/ /\ trim_btn
     /\ browse_file("b.mov", TRUE)
  \/ start_trim(TRUE)
  \/ Deliver
  \/ \E j \in JobIds : Run(j)

SpecCodec == InitCodec /\ [][NextCodec]_vars

(***************************************************************************)
(* Properties.                                                             *)
(***************************************************************************)

\* C1: every job emits its finished signal exactly once, whatever made run()
\* end (the source failed to open, the encode failed with or without
\* progress emitted, or the encode succeeded): a thread past its emit
\* statement has emitted once, a thread before it has not emitted, and each
\* emission is either still queued or was handled by on_finished.
C1_FinishedExactlyOnce ==
  \A j \in JobIds :
    LET queued == Cardinality({i \in DOMAIN queue :
                                 queue[i].sig = "finished" /\ queue[i].job = j})
    IN /\ jobs[j].nfinished = IF jobs[j].pc \in {"exit", "done"} THEN 1 ELSE 0
       /\ queued + (IF jobs[j].handled THEN 1 ELSE 0) = jobs[j].nfinished

\* C1's case: an encode that failed before any progress was emitted, its
\* one finished signal handled by on_finished.
C1_Witness ==
  \E j \in JobIds : /\ jobs[j].err = EncodeError
                    /\ jobs[j].emitted = <<>>
                    /\ jobs[j].nfinished = 1
                    /\ jobs[j].handled

\* C3: once on_finished has handled the finished signal of a job, no
\* progress signal of that job is delivered to the progress bar any more:
\* the percents the bar has observed for it stay as they are.
C3_FinishedIsLast ==
  [][\A j \in JobIds :
       (jobs[j].handled /\ jobs'[j].handled)
          => jobs'[j].observed = jobs[j].observed]_vars

\* C3's case: a job whose progress reached the bar and whose finished signal
\* was handled, with nothing of it left in the queue.
C3_Witness ==
  \E j \in JobIds : /\ jobs[j].handled
                    /\ jobs[j].observed # <<>>
                    /\ jobs[j].observed = jobs[j].emitted

\* C4: at most one job has been started and has not returned from run().
C4_OneJobAlive == Cardinality({j \in JobIds : Alive(j)}) <= 1

\* C5: a job that has emitted its finished signal has released the source
\* it opened.
C5_SourceReleased ==
  \A j \in JobIds : jobs[j].nfinished > 0 => jobs[j].clip # "open"

\* C6: the sub-clip of a job is taken over [start, min(end, d)], start and
\* end the range the job was created with and d the duration of its source,
\* and a job about to take it holds an end time within the source.
C6_EndClamped ==
  \A j \in JobIds :
    /\ jobs[j].sub # <<>> =>
         jobs[j].sub = <<jobs[j].requested[1],
                         Min({jobs[j].requested[2], DurationOf[jobs[j].src]})>>
    /\ jobs[j].pc = "subclip" => jobs[j].end_time <= DurationOf[jobs[j].src]

\* C6's case: a job created with an end time beyond its source has encoded
\* up to the end of the source.
C6_Witness ==
  \E j \in JobIds : /\ jobs[j].requested # <<>>
                    /\ jobs[j].requested[2] > DurationOf[jobs[j].src]
                    /\ jobs[j].sub = <<jobs[j].requested[1],
                                       DurationOf[jobs[j].src]>>

\* C7: a click on Trim while the start or the end text is not a timecode, or
\* the end is not after the start, shows an error and nothing else: no job
\* is created or started, no signal is queued, the button stays enabled and
\* the progress bar keeps its value.
C7_InvalidRangeRejected ==
  [][LET start_sec == to_seconds(start_edit)
         end_sec == to_seconds(end_edit)
     IN (/\ \/ start_sec.raised
            \/ end_sec.raised
            \/ end_sec.value <= start_sec.value
         /\ \E exists \in BOOLEAN : start_trim(exists))
        => /\ shown'.kind = "critical"
           /\ trim_btn'
           /\ UNCHANGED <<jobs, njobs, worker, progress, queue>>]_vars

\* C7's case: a click with the end before the start was answered by the
\* range error, and no job has been created.
C7_Witness ==
  /\ shown.text = "End time must be greater than start time."
  /\ ~to_seconds(start_edit).raised
  /\ ~to_seconds(end_edit).raised
  /\ to_seconds(end_edit).value <= to_seconds(start_edit).value
  /\ njobs = 0
  /\ trim_btn

\* C8: a click on Trim while the output text is empty or blank shows an
\* error and creates no job.
C8_BlankOutputRejected ==
  [][(/\ Strip(out_edit) = <<>>
      /\ \E exists \in BOOLEAN : start_trim(exists))
     => /\ shown'.kind = "critical"
        /\ UNCHANGED <<jobs, njobs, worker>>]_vars

\* C2: the percents a job emits, and those the progress bar observes, never
\* decrease.
C2_Monotonic ==
  \A j \in JobIds :
    /\ \A i \in 2..Len(jobs[j].emitted) :
         jobs[j].emitted[i - 1] <= jobs[j].emitted[i]
    /\ \A i \in 2..Len(jobs[j].observed) :
         jobs[j].observed[i - 1] <= jobs[j].observed[i]

\* C9: the percent emitted last is the floor of 100 * completed / total over
\* the latest snapshot of every phase, and lies in 0..100.
C9_FloorPercent ==
  \A j \in JobIds :
    jobs[j].emitted # <<>> =>
      LET last == jobs[j].emitted[Len(jobs[j].emitted)]
      IN /\ last = (100 * Completed(jobs[j].bars)) \div GrandTotal(jobs[j].bars)
         /\ last \in 0..100

\* C10: a percent is emitted only when it differs from the one emitted
\* before it.
C10_NoRepeat ==
  \A j \in JobIds :
    \A i \in 2..Len(jobs[j].emitted) :
      jobs[j].emitted[i - 1] # jobs[j].emitted[i]

\* C11: the Trim button is the slot of the active job.  It is disabled
\* exactly while the worker start_trim created last has not had its
\* finished signal handled; only start_trim disables it and sets
\* self.worker, and only on_finished, handling that worker's signal,
\* enables it again.  self.worker itself is never cleared.
C11_SlotDiscipline ==
  /\ [](~trim_btn <=> (worker # 0 /\ ~jobs[worker].handled))
  /\ [][/\ (trim_btn /\ ~trim_btn') => \E exists \in BOOLEAN : start_trim(exists)
        /\ worker' # worker =>
             /\ \E exists \in BOOLEAN : start_trim(exists)
             /\ worker' # 0
        /\ (~trim_btn /\ trim_btn') =>
             /\ ~jobs[worker].handled
             /\ jobs'[worker].handled]_vars

\* C11's case: a job was started and handled by on_finished; the button is
\* enabled again and self.worker still refers to that job.
C11_Witness ==
  /\ trim_btn
  /\ worker # 0
  /\ jobs[worker].handled

\* C11 as stated: the slot, self.worker included, is empty whenever no job
\* awaits its finished signal.
C11_SlotEmptyAfterwards ==
  (worker # 0) <=> ~trim_btn

\* C12: no step of a worker thread (a statement of run() or a callback of
\* its logger) changes the progress bar or the Trim button; they change only
\* in a step of the UI thread, start_trim or the delivery of a queued
\* signal.
C12_WorkerLeavesSurface ==
  [][/\ (\E j \in JobIds :
           \/ Run(j)
           \/ \E ch \in Changes \cup LoggerChanges : callback(j, ch))
          => UNCHANGED <<progress, trim_btn>>
     /\ (progress' # progress \/ trim_btn' # trim_btn)
          => \/ Deliver
             \/ \E exists \in BOOLEAN : start_trim(exists)]_vars

\* C12's case: a worker has emitted a percent that the UI thread has not
\* delivered yet, and the progress bar still shows the old value.
C12_Witness ==
  \E j \in JobIds : /\ jobs[j].emitted # <<>>
                    /\ jobs[j].observed = <<>>
                    /\ jobs[j].emitted[1] # progress
                    /\ queue # <<>>
                    /\ queue[1] = ProgressEvent(j, jobs[j].emitted[1])

\* C13: to_seconds accepts a text exactly when, with the whitespace at its
\* two ends removed, it is H+:MM:SS or H+:MM:SS.f with one to three digits
\* f, and raises for every other text; so it raises for "", "1:2:3" and
\* "-1:00:00" and accepts "12:60:00".  Stated for the texts of the start
\* and the end field.
C13_GrammarOnly ==
  LET D == {"0", "1", "2", "3", "4", "5", "6", "7", "8", "9"}
      W == {" ", "\t", "\n"}
      InGrammar(c) ==
        \E k \in 1..Len(c), f \in 0..3 :
          /\ Len(c) = k + 6 + (IF f = 0 THEN 0 ELSE f + 1)
          /\ \A i \in 1..k : c[i] \in D
          /\ c[k + 1] = ":" /\ c[k + 2] \in D /\ c[k + 3] \in D
          /\ c[k + 4] = ":" /\ c[k + 5] \in D /\ c[k + 6] \in D
          /\ f > 0 => /\ c[k + 7] = "."
                      /\ \A i \in (k + 8)..(k + 7 + f) : c[i] \in D
      Accepted(t) ==
        \E a \in 1..Len(t), b \in 1..Len(t) :
          /\ a <= b
          /\ \A i \in 1..(a - 1) : t[i] \in W
          /\ \A i \in (b + 1)..Len(t) : t[i] \in W
          /\ InGrammar(SubSeq(t, a, b))
  IN /\ \A t \in {start_edit, end_edit} : ~to_seconds(t).raised <=> Accepted(t)
     /\ to_seconds(<<>>).raised
     /\ to_seconds(<<"1", ":", "2", ":", "3">>).raised
     /\ to_seconds(<<"-", "1", ":", "0", "0", ":", "0", "0">>).raised
     /\ ~to_seconds(<<"1", "2", ":", "6", "0", ":", "0", "0">>).raised

\* C13's case: start_trim has parsed a start text that is padded with
\* blanks and has a fraction of three digits, and created the job with its
\* value.
C13_Witness ==
  /\ njobs = 1
  /\ Len(start_edit) > 2
  /\ start_edit[1] = " "
  /\ start_edit[Len(start_edit)] = " "
  /\ jobs[1].requested # <<>>
  /\ jobs[1].requested[1] = 5125

\* C14: parsing, formatting and parsing again gives the value of the first
\* parse to within a millisecond, and the formatted text is one to_seconds
\* accepts.  Stated for the texts of the start and the end field.
C14_RoundTrip ==
  \A t \in {start_edit, end_edit} :
    LET p == to_seconds(t) IN
    ~p.raised =>
      LET q == to_seconds(seconds_to_timecode(p.value))
      IN /\ ~q.raised
         /\ q.value - p.value \in -1..1

\* C14's case: browse_file has formatted a duration with a fraction into
\* the end field, and the start field holds a valid text with a fraction
\* that formatting spells differently.
C14_Witness ==
  /\ end_edit = seconds_to_timecode(DurationOf["b.mov"])
  /\ ~to_seconds(start_edit).raised
  /\ to_seconds(start_edit).value % 1000 = 500
  /\ seconds_to_timecode(to_seconds(start_edit).value) # Strip(start_edit)

\* C15: a job keeps the start time it was created with: run() never changes
\* self.start_time, and the sub-clip it takes starts exactly there, also
\* when the start is at or beyond the duration of the source, where the
\* clamped end is not after the start.
C15_StartUntouched ==
  \A j \in JobIds :
    jobs[j].requested # <<>> =>
      /\ jobs[j].start_time = jobs[j].requested[1]
      /\ jobs[j].sub # <<>> => jobs[j].sub[1] = jobs[j].requested[1]

\* C15's case: a job created with a start beyond the duration of its source
\* has taken a sub-clip whose end is before its start.
C15_Witness ==
  \E j \in JobIds : /\ jobs[j].requested # <<>>
                    /\ jobs[j].requested[1] >= DurationOf[jobs[j].src]
                    /\ jobs[j].requested[2] > jobs[j].requested[1]
                    /\ jobs[j].sub = <<jobs[j].requested[1],
                                       DurationOf[jobs[j].src]>>
                    /\ jobs[j].sub[2] <= jobs[j].sub[1]

\* C16: every started job eventually has its finished signal handled by
\* on_finished, and a disabled Trim button is eventually enabled again.
C16_EventuallyHandled ==
  /\ \A j \in JobIds : (jobs[j].pc = "open") ~> jobs[j].handled
  /\ ~trim_btn ~> trim_btn

\* C16's case: a job has returned from run(), its finished signal was
\* handled and the button is enabled.
C16_Witness ==
  \E j \in JobIds : /\ jobs[j].pc = "done"
                    /\ jobs[j].handled
                    /\ jobs[j].nfinished = 1
                    /\ trim_btn

\* C17: from the moment on_finished has handled the finished signal of the
\* current worker until start_trim creates the next one, the progress bar
\* shows 100 if the job succeeded and 0 if it failed.
C17_ProgressByOutcome ==
  (worker # 0 /\ jobs[worker].handled)
     => progress = IF jobs[worker].err = "" THEN 100 ELSE 0

\* C17's case: a job that had brought the bar above 0 failed in the encode;
\* its finished signal was handled and the bar shows 0.
C17_Witness ==
  /\ worker # 0
  /\ jobs[worker].handled
  /\ jobs[worker].err = EncodeError
  /\ jobs[worker].observed # <<>>
  /\ jobs[worker].observed[Len(jobs[worker].observed)] > 0
  /\ progress = 0

\* C18: while the logger of a job has recorded no bar, the job has emitted
\* no percent: a callback that arrives before the first snapshot emits
\* nothing.
C18_NothingBeforeFirstBar ==
  \A j \in JobIds :
    DOMAIN jobs[j].bars = {} => jobs[j].emitted = <<>>

\* C18's case: the logger of a job was called with a message only, twice,
\* and the job has emitted nothing.
C18_Witness ==
  \E j \in JobIds : /\ jobs[j].pc = "write"
                    /\ jobs[j].ncallbacks = 2
                    /\ DOMAIN jobs[j].bars = {}
                    /\ jobs[j].emitted = <<>>
                    /\ queue = <<>>

\* C19: the destination of every job that was created from a non-empty
\* output text ends in .mp4.
C19_DestinationHasExtension ==
  \A j \in JobIds :
    (jobs[j].pc # "none" /\ jobs[j].dst # Path(<<>>))
       => EndsWith(Lower(jobs[j].dst), Txt_ext)

====
